---- MODULE Spec2Model ----
(***************************************************************************)
(* The two scripts of the repository, examples/scripts/hello.py and        *)
(* pkg/runtime/testdata/test_python_runtime.py, as one state machine.      *)
(*                                                                         *)
(* A string is a sequence of characters (one-character strings) and the    *)
(* standard output of the process is the sequence of characters written    *)
(* so far.  print(s) appends the characters of s and a line feed; an       *)
(* output line is a maximal run of characters closed by a line feed.       *)
(* Standard output is taken to be a text stream that accepts every         *)
(* character it is given.                                                  *)
(***************************************************************************)
EXTENDS Naturals, Sequences, FiniteSets

VARIABLES
    script,          \* which of the two scripts the interpreter was started on
    argv,            \* sys.argv: the script name, then the arguments
    environ,         \* os.environ: a function from variable names to values
    cwd,             \* path of the process's current working directory
    cwd_unlinked,    \* TRUE when that directory has been removed under the process
    sys_version,     \* sys.version
    python_version,  \* platform.python_version()
    system,          \* platform.system()
    machine,         \* platform.machine()
    pc,              \* line of the script about to be executed
    api_key,         \* the module-level name api_key (empty sequence: unbound)
    stdout,          \* the characters written to standard output so far
    exit_status      \* <<>> while the process runs, <<code>> once it has exited

vars == <<script, argv, environ, cwd, cwd_unlinked, sys_version, python_version,
          system, machine, pc, api_key, stdout, exit_status>>

(***************************************************************************)
(* Bounds of the model.                                                    *)
(***************************************************************************)
\* largest number of command-line arguments after the script name
MaxArgs == 2
\* largest length of an argument, of the TEST_API_KEY value and of the
\* working-directory path
MaxLen == 2

(***************************************************************************)
(* Characters and strings.                                                 *)
(***************************************************************************)
LF == "\n"
SP == " "

\* the characters the bounded inputs are made of: a letter and the line feed
Char == {"a", LF}

StringsUpTo(n) == UNION {[1..k -> Char] : k \in 0..n}

ListsUpTo(S, n) == UNION {[1..k -> S] : k \in 0..n}

\* the positions of the line feeds of a string
LFPositions(s) == {i \in 1..Len(s) : s[i] = LF}

\* number of line feeds in a string
CountLF(s) == Cardinality(LFPositions(s))

\* a finite set of numbers as an increasing sequence
RECURSIVE Increasing(_)
Increasing(P) ==
    IF P = {} THEN <<>>
    ELSE LET m == CHOOSE x \in P : \A y \in P : x <= y
         IN  <<m>> \o Increasing(P \ {m})

\* the output lines of a character stream: each run of characters closed by
\* a line feed, without the line feed; characters after the last line feed
\* form a last, unterminated line
Lines(s) ==
    LET pos == Increasing(LFPositions(s))
        n == Len(pos)
        first(k) == IF k = 1 THEN 1 ELSE pos[k - 1] + 1
        rest == IF n = 0 THEN 1 ELSE pos[n] + 1
    IN  [k \in 1..n |-> SubSeq(s, first(k), pos[k] - 1)]
            \o (IF rest <= Len(s) THEN <<SubSeq(s, rest, Len(s))>> ELSE <<>>)

\* what is left of a character stream after its first n lines
DropLines(s, n) ==
    LET pos == Increasing(LFPositions(s))
    IN  IF n = 0 THEN s
        ELSE IF n > Len(pos) THEN <<>>
        ELSE SubSeq(s, pos[n] + 1, Len(s))

IsPrefix(p, s) == Len(p) <= Len(s) /\ SubSeq(s, 1, Len(p)) = p

(***************************************************************************)
(* The string literals of the two scripts.                                 *)
(***************************************************************************)
HelloFromPython == <<"H", "e", "l", "l", "o", " ", "f", "r", "o", "m", " ", "P", "y", "t", "h", "o", "n", " ">>
Bang == <<"!">>
PlatformLabel == <<"P", "l", "a", "t", "f", "o", "r", "m", ":", " ">>
ArgumentsLabel == <<"A", "r", "g", "u", "m", "e", "n", "t", "s", ":", " ">>
RuntimeTestLabel == <<"P", "y", "t", "h", "o", "n", " ", "R", "u", "n", "t", "i", "m", "e", " ", "T", "e", "s", "t">>
PythonVersionLabel == <<"P", "y", "t", "h", "o", "n", " ", "v", "e", "r", "s", "i", "o", "n", ":", " ">>
WorkingDirectoryLabel == <<"W", "o", "r", "k", "i", "n", "g", " ", "d", "i", "r", "e", "c", "t", "o", "r", "y", ":", " ">>
ApiKeyLabel == <<"T", "E", "S", "T", "_", "A", "P", "I", "_", "K", "E", "Y", ":", " ">>
TEST_API_KEY == "TEST_API_KEY"
not_set == <<"n", "o", "t", "_", "s", "e", "t">>
TestCompleted == <<"T", "e", "s", "t", " ", "c", "o", "m", "p", "l", "e", "t", "e", "d", " ", "s", "u", "c", "c", "e", "s", "s", "f", "u", "l", "l", "y", "!">>

(***************************************************************************)
(* What the interpreter and the operating system supply.                   *)
(***************************************************************************)
HelloPy == <<"h", "e", "l", "l", "o", ".", "p", "y">>
RuntimePy == <<"t", "e", "s", "t", "_", "p", "y", "t", "h", "o", "n", "_", "r", "u", "n", "t", "i", "m", "e", ".", "p", "y">>

\* platform.python_version(): 'major.minor.patchlevel'
PythonVersions ==
    { <<"3", ".", "1", "1", ".", "4">>, <<"3", ".", "9", ".", "2">> }

\* sys.version: version, build and compiler; CPython up to 3.9 puts a line
\* feed before the compiler, CPython from 3.10 on does not
SysVersions ==
    { <<"3", ".", "1", "1", ".", "4", " ", "(", "m", "a", "i", "n", ")", " ", "[", "G", "C", "C", "]">>,
      <<"3", ".", "9", ".", "2", " ", "(", "m", "a", "i", "n", ")", " ", LF, "[", "G", "C", "C", "]">> }

\* platform.system() and platform.machine(): a name, or the empty string
\* when it cannot be determined
Systems == { <<"L", "i", "n", "u", "x">>, <<>> }
Machines == { <<"x", "8", "6", "_", "6", "4">>, <<>> }

\* os.environ restricted to the one variable the scripts read: the variable
\* is absent, or present with any value, the empty string included
Environments ==
    UNION {[D -> StringsUpTo(MaxLen)] : D \in SUBSET {TEST_API_KEY}}

\* the working directory's path is never empty
CwdPaths == StringsUpTo(MaxLen) \ {<<>>}

ArgLists == ListsUpTo(StringsUpTo(MaxLen), MaxArgs)

(***************************************************************************)
(* Library functions the scripts call.                                     *)
(***************************************************************************)
\* sep.join(xs)
RECURSIVE join(_, _)
join(sep, xs) ==
    IF xs = <<>> THEN <<>>
    ELSE IF Len(xs) = 1 THEN Head(xs)
    ELSE Head(xs) \o sep \o join(sep, Tail(xs))

\* print(s) on the stream out: the characters of s, then a line feed
print(out, s) == out \o s \o <<LF>>

\* os.environ.get(key, default)
environ_get(key, default) ==
    IF key \in DOMAIN environ THEN environ[key] ELSE default

(***************************************************************************)
(* Initial states: a process about to execute the first statement of one   *)
(* of the scripts.  An input the script never reads ranges over a small    *)
(* fixed set.                                                              *)
(***************************************************************************)
InitHello ==
    /\ script = "hello"
    /\ \E A \in ArgLists : argv = <<HelloPy>> \o A
    /\ environ \in {[D \in {} |-> <<>>], [D \in {TEST_API_KEY} |-> <<"a">>]}
    /\ cwd = <<"a">>
    /\ cwd_unlinked = FALSE
    /\ sys_version = <<"3", ".", "1", "1", ".", "4", " ", "(", "m", "a", "i", "n", ")", " ", "[", "G", "C", "C", "]">>
    /\ python_version \in PythonVersions
    /\ system \in Systems
    /\ machine \in Machines
    /\ pc = "hello:9"

InitRuntime ==
    /\ script = "runtime"
    /\ \E A \in {<<>>, << <<"a">> >>} : argv = <<RuntimePy>> \o A
    /\ environ \in Environments
    /\ cwd \in CwdPaths
    /\ cwd_unlinked \in BOOLEAN
    /\ sys_version \in SysVersions
    /\ python_version = <<"3", ".", "1", "1", ".", "4">>
    /\ system = <<"L", "i", "n", "u", "x">>
    /\ machine = <<"x", "8", "6", "_", "6", "4">>
    /\ pc = "runtime:7"

Init ==
    /\ InitHello \/ InitRuntime
    /\ api_key = <<>>
    /\ stdout = <<>>
    /\ exit_status = <<>>

inputs == <<script, argv, environ, cwd, cwd_unlinked, sys_version,
            python_version, system, machine>>

(***************************************************************************)
(* examples/scripts/hello.py                                               *)
(***************************************************************************)
\* a greeting that leaves the interpreter version out
GreetingTextNoVersion == HelloFromPython \o Bang

\* f"Hello from Python {platform.python_version()}!"
GreetingText == HelloFromPython \o python_version \o Bang

\* f"Platform: {platform.system()} {platform.machine()}"
PlatformText == PlatformLabel \o system \o <<SP>> \o machine

\* the test off by one: the script name counted as an argument
HasArgumentsOffByOne == Len(argv) > 0

\* len(sys.argv) > 1
HasArguments == Len(argv) > 1

\* the whole of sys.argv joined, script name included
ArgumentsTextWithScriptName == ArgumentsLabel \o join(<<SP>>, argv)

\* f"Arguments: {' '.join(sys.argv[1:])}"
ArgumentsText == ArgumentsLabel \o join(<<SP>>, Tail(argv))

\* main() returning the number of arguments
MainReturnArgCount == Len(argv) - 1

\* the value main() returns, which sys.exit() turns into the exit status
MainReturn == 0

HelloGreeting ==
    /\ pc = "hello:9"
    /\ stdout' = print(stdout, GreetingText)
    /\ pc' = "hello:10"
    /\ UNCHANGED <<inputs, api_key, exit_status>>

HelloPlatform ==
    /\ pc = "hello:10"
    /\ stdout' = print(stdout, PlatformText)
    /\ pc' = "hello:12"
    /\ UNCHANGED <<inputs, api_key, exit_status>>

HelloArguments ==
    /\ pc = "hello:12"
    /\ HasArguments
    /\ stdout' = print(stdout, ArgumentsText)
    /\ pc' = "hello:15"
    /\ UNCHANGED <<inputs, api_key, exit_status>>

HelloNoArguments ==
    /\ pc = "hello:12"
    /\ ~HasArguments
    /\ pc' = "hello:15"
    /\ UNCHANGED <<inputs, api_key, stdout, exit_status>>

HelloExit ==
    /\ pc = "hello:15"
    /\ exit_status' = <<MainReturn>>
    /\ pc' = "exited"
    /\ UNCHANGED <<inputs, api_key, stdout>>

(***************************************************************************)
(* pkg/runtime/testdata/test_python_runtime.py                             *)
(***************************************************************************)
\* the short version of the platform module printed in place of sys.version
VersionTextShort == PythonVersionLabel \o python_version

\* f"Python version: {sys.version}"
VersionText == PythonVersionLabel \o sys_version

\* the script's own path printed in place of the working directory
WorkingDirectoryTextScript == WorkingDirectoryLabel \o Head(argv)

\* f"Working directory: {os.getcwd()}"
WorkingDirectoryText == WorkingDirectoryLabel \o cwd

\* os.environ.get("TEST_API_KEY") or "not_set": an empty value also falls
\* back to the sentinel
ApiKeyValueOrDefault ==
    IF TEST_API_KEY \in DOMAIN environ /\ environ[TEST_API_KEY] # <<>>
    THEN environ[TEST_API_KEY] ELSE not_set

\* os.environ.get("TEST_API_KEY", "not_set")
ApiKeyValue == environ_get(TEST_API_KEY, not_set)

\* f"TEST_API_KEY: {api_key}"
ApiKeyText == ApiKeyLabel \o api_key

\* exit status of an interpreter whose script ran to its end
ExitSuccess == 0

\* exit status of an interpreter whose script raised an exception nothing caught
ExitUncaught == 1

RuntimeLabel ==
    /\ pc = "runtime:7"
    /\ stdout' = print(stdout, RuntimeTestLabel)
    /\ pc' = "runtime:8"
    /\ UNCHANGED <<inputs, api_key, exit_status>>

RuntimeVersion ==
    /\ pc = "runtime:8"
    /\ stdout' = print(stdout, VersionText)
    /\ pc' = "runtime:9"
    /\ UNCHANGED <<inputs, api_key, exit_status>>

\* os.getcwd() returns the path of the working directory
RuntimeWorkingDirectory ==
    /\ pc = "runtime:9"
    /\ ~cwd_unlinked
    /\ stdout' = print(stdout, WorkingDirectoryText)
    /\ pc' = "runtime:12"
    /\ UNCHANGED <<inputs, api_key, exit_status>>

\* os.getcwd() raises FileNotFoundError when the working directory has been
\* removed; nothing catches it, the interpreter writes the traceback to
\* standard error and exits
RuntimeGetcwdRaises ==
    /\ pc = "runtime:9"
    /\ cwd_unlinked
    /\ exit_status' = <<ExitUncaught>>
    /\ pc' = "exited"
    /\ UNCHANGED <<inputs, api_key, stdout>>

\* api_key = os.environ["TEST_API_KEY"]: KeyError when the variable is unset
RuntimeReadApiKeyStrict ==
    /\ pc = "runtime:12"
    /\ IF TEST_API_KEY \in DOMAIN environ
       THEN /\ api_key' = environ[TEST_API_KEY]
            /\ pc' = "runtime:13"
            /\ UNCHANGED exit_status
       ELSE /\ exit_status' = <<ExitUncaught>>
            /\ pc' = "exited"
            /\ UNCHANGED api_key
    /\ UNCHANGED <<inputs, stdout>>

\* api_key = os.environ.setdefault("TEST_API_KEY", "not_set"): an unset
\* variable is added to the environment
RuntimeReadApiKeySetdefault ==
    /\ pc = "runtime:12"
    /\ api_key' = ApiKeyValue
    /\ environ' = [n \in DOMAIN environ \cup {TEST_API_KEY} |-> environ_get(n, not_set)]
    /\ pc' = "runtime:13"
    /\ UNCHANGED <<script, argv, cwd, cwd_unlinked, sys_version, python_version,
                   system, machine, stdout, exit_status>>

\* api_key = os.environ.get("TEST_API_KEY", "not_set")
RuntimeReadApiKey ==
    /\ pc = "runtime:12"
    /\ api_key' = ApiKeyValue
    /\ pc' = "runtime:13"
    /\ UNCHANGED <<inputs, stdout, exit_status>>

RuntimeApiKey ==
    /\ pc = "runtime:13"
    /\ stdout' = print(stdout, ApiKeyText)
    /\ pc' = "runtime:15"
    /\ UNCHANGED <<inputs, api_key, exit_status>>

RuntimeCompleted ==
    /\ pc = "runtime:15"
    /\ stdout' = print(stdout, TestCompleted)
    /\ pc' = "runtime:end"
    /\ UNCHANGED <<inputs, api_key, exit_status>>

RuntimeExit ==
    /\ pc = "runtime:end"
    /\ exit_status' = <<ExitSuccess>>
    /\ pc' = "exited"
    /\ UNCHANGED <<inputs, api_key, stdout>>

Next ==
    \/ HelloGreeting
    \/ HelloPlatform
    \/ HelloArguments
    \/ HelloNoArguments
    \/ HelloExit
    \/ RuntimeLabel
    \/ RuntimeVersion
    \/ RuntimeWorkingDirectory
    \/ RuntimeGetcwdRaises
    \/ RuntimeReadApiKey
    \/ RuntimeApiKey
    \/ RuntimeCompleted
    \/ RuntimeExit

Spec == Init /\ [][Next]_vars

(***************************************************************************)
(* Vocabulary of the properties.                                           *)
(***************************************************************************)
\* the argument list A of an invocation: sys.argv without the script name
Args == Tail(argv)

HelloExited == script = "hello" /\ pc = "exited"

RuntimeExited == script = "runtime" /\ pc = "exited"

\* number of line feeds in the elements of a list of strings
RECURSIVE LineFeedsIn(_)
LineFeedsIn(A) ==
    IF A = <<>> THEN 0 ELSE CountLF(Head(A)) + LineFeedsIn(Tail(A))

\* the elements of a non-empty list of strings, in order, with one space
\* between each two neighbours
RECURSIVE SpaceJoined(_)
SpaceJoined(A) ==
    IF Len(A) = 1 THEN A[1]
    ELSE SpaceJoined(SubSeq(A, 1, Len(A) - 1)) \o <<SP>> \o A[Len(A)]

\* TEST_API_KEY's value, or the sentinel when the variable is unset
KeyOrSentinel ==
    IF TEST_API_KEY \in DOMAIN environ THEN environ[TEST_API_KEY] ELSE not_set

\* no output line begins with the label
NoLineBegins(label) ==
    \A i \in 1..Len(Lines(stdout)) : ~IsPrefix(label, Lines(stdout)[i])

C7_LineOrder ==
    script = "hello" =>
        LET L == Lines(stdout) IN
        /\ Len(L) >= 1 => L[1] = HelloFromPython \o python_version \o <<"!">>
        /\ Len(L) >= 2 => L[2] = PlatformLabel \o system \o <<SP>> \o machine
        /\ Len(L) >= 3 => (Args # <<>> /\ IsPrefix(ArgumentsLabel, L[3]))
        /\ pc = "hello:10" => Len(L) = 1
        /\ pc = "hello:12" => Len(L) = 2
        /\ pc = "exited" => Len(L) >= 2

\* a run under interpreter 3.9.2 that has written all three lines
C7_Witness ==
    /\ HelloExited
    /\ python_version = <<"3", ".", "9", ".", "2">>
    /\ Len(Lines(stdout)) = 3
    /\ IsPrefix(ArgumentsLabel, Lines(stdout)[3])

C9_InputsUnchanged ==
    [][/\ environ' = environ
       /\ cwd' = cwd
       /\ cwd_unlinked' = cwd_unlinked
       /\ argv' = argv]_vars

\* a run that found TEST_API_KEY unset and fell back to the sentinel has
\* ended with the variable still unset
C9_Witness ==
    /\ RuntimeExited
    /\ api_key = not_set
    /\ TEST_API_KEY \notin DOMAIN environ
    /\ stdout # <<>>

====
